---------------------------- MODULE Spec2Model ----------------------------
(***************************************************************************)
(* State-machine model of the console broker (src/broker.go): the ring     *)
(* history buffer, the session registry, each session's outbound channel   *)
(* and drain goroutine, the producers calling Append, the accept loop,     *)
(* Start and Stop.  Every channel operation and every acquisition of       *)
(* ringMu is one step; a critical section that performs no channel         *)
(* operation another goroutine can observe is one atomic step.             *)
(***************************************************************************)
EXTENDS Integers, Sequences, FiniteSets, TLC

(* ------------------------------ bounds --------------------------------- *)
\* concurrent producer threads calling Append
NumProducers == 2
\* Append calls in one behaviour
MaxAppends == 2
\* connections dialled in one behaviour of Spec
MaxConns == 1
\* connections dialled in one behaviour of SpecAdmit
AdmitConns == 6
\* largest ring capacity NewBroker is given (cfg.MaxLines)
MaxCapacity == 2
\* capacity of a session's outbound channel (512 in the source, scaled down)
ChanCap == 2
\* calls of Start and of Stop in one behaviour
MaxStarts == 1
MaxStops == 1
\* calls of r.ReadBytes by the attach reader in SpecAttach
MaxReads == 3
\* transient accept errors of one accept loop in SpecAccept
MaxAcceptErrors == 2
\* longest text passed to Append in SpecLevel
MaxTextLen == 8
\* calls of Start in one behaviour of SpecCycle
CycleStarts == 2
\* Append calls in one behaviour of SpecCycle
CycleAppends == 1
\* Append calls in one behaviour of SpecStop and of SpecIso
StopAppends == 2
\* connections dialled in one behaviour of SpecIso
IsoConns == 2
\* viewers that may stop reading in SpecIso: connections 1..IsoStallers
IsoStallers == 1
\* viewers that may hang up in SpecAdmit: connections 1..AdmitLeavers
AdmitLeavers == 1

(* ------------------------- program constants --------------------------- *)
\* the admission ceiling of handleNewClient
MaxSessions == 5

Producers == 1..NumProducers
Max(a, b) == IF a > b THEN a ELSE b
ConnBound == Max(AdmitConns, Max(MaxConns, IsoConns))
RecBound == Max(MaxAppends, Max(StopAppends, CycleAppends))
Conns == 1..ConnBound
Listeners == 1..Max(MaxStarts, CycleStarts)
Paths == {"A", "B"}
\* opts.SocketCandidates of the usual deployment
socketCandidates == <<"A", "B">>
\* the candidate lists NewBroker is given in SpecLife
CandidateLists == {<<>>, <<"A">>, <<"A", "B">>, <<"B", "A">>}

(* -------------------------------- texts -------------------------------- *)
\* a text is the sequence of its characters
ErrorPrefix == <<"E", "R", "R", "O", "R", ":", " ">>

\* strings.HasPrefix(s, prefix)
HasPrefix(s, prefix) ==
    Len(s) >= Len(prefix) /\ SubSeq(s, 1, Len(prefix)) = prefix

\* a derivation that forgets the trailing space of the prefix
LevelOfNoSpace(s) ==
    IF HasPrefix(s, SubSeq(ErrorPrefix, 1, Len(ErrorPrefix) - 1)) THEN "error" ELSE "info"

\* LevelOf: the coarse level of a line
LevelOf(s) == IF HasPrefix(s, ErrorPrefix) THEN "error" ELSE "info"

\* the text of an ordinary line
PlainText == <<"d">>
Alphabet == {"E", "R", "O", ":", " ", "d", "e"}
\* "ERROR: ddd..." cut to k characters
ErrorText(k) == [i \in 1..k |-> IF i <= Len(ErrorPrefix) THEN ErrorPrefix[i] ELSE "d"]
\* the texts of SpecLevel: every cut of "ERROR: d...", each with any one
\* character replaced, and each behind a leading space
Texts ==
    {ErrorText(k) : k \in 0..MaxTextLen}
    \cup {<<" ">> \o ErrorText(k) : k \in 0..(MaxTextLen - 1)}
    \cup UNION {UNION {{[ErrorText(k) EXCEPT ![i] = a] : a \in Alphabet} :
                          i \in 1..k} : k \in 1..MaxTextLen}

(* ----------------------------- wire records ---------------------------- *)
\* the Line value of a record not built yet
NoLine == [Text |-> <<>>, Level |-> ""]
\* b.metaBuf: the encoded Meta record
Meta == [type |-> "meta", n |-> 0]
\* the encoded Line record of the r-th Append call
Line(r) == [type |-> "line", n |-> r]
\* the encoded Notice "[viewer lagged; dropped <k> lines]"
Notice(k) == [type |-> "notice", n |-> k]

VARIABLES
    \* ---- Broker fields guarded by ringMu
    ring,        \* b.ring: slot -> record id, 0 for a nil slot
    head,        \* b.head
    capacity,    \* b.capacity
    clients,     \* b.clients: the registered sessions
    mu,          \* b.ringMu: who holds it across several steps
    \* ---- Broker fields guarded by stateMu
    running,     \* b.running
    listener,    \* b.listener: listener id, 0 for nil
    socketPath,  \* b.socketPath: "" when unset
    \* ---- sessions (one per dialled connection)
    spc,         \* position of the connection / its goroutine
    ch,          \* cli.ch: the buffered channel
    cur,         \* msg held by the drain loop (also the bytes buffered in cli.bw)
    connOpen,    \* cli.conn not yet closed by the broker
    peer,        \* the remote reader: "reading", "stalled" or "gone"
    written,     \* records written to the transport, in order
    \* ---- producers (callers of Append)
    apc,         \* position inside appendWithWhen / broadcast
    arec,        \* id of the record being appended
    todo,        \* clients the range loop of broadcast has not visited yet
    acur,        \* cli of the current loop iteration
    dropped,     \* the local variable dropped
    nextRec,     \* id of the next Append call
    \* ---- accept loops, Start, Stop
    lpc,         \* position of each accept loop
    lconn,       \* connection returned by Accept
    listenerOpen,\* listener not yet closed
    nextConn,    \* id of the next connection
    tpc,         \* position inside Stop
    stopLn,      \* Stop's local ln
    stopPath,    \* Stop's local path
    stopCur,     \* cli of Stop's current loop iteration
    starts,      \* calls of Start so far
    stops,       \* calls of Stop so far
    \* ---- the file system the socket paths live in
    fs,          \* path -> "none" | "other" | "stale" | "broker"
    dirMode,     \* path -> "rw" | "sticky" | "ro"
    candidates,  \* b.socketCandidates
    \* ---- limits of this behaviour
    connLimit,   \* connections dialled
    appendLimit, \* calls of Append
    prodLimit,   \* producer threads
    startLimit,  \* calls of Start
    inputs,      \* the texts callers pass to Append
    \* ---- history (observations, never read by the program)
    pushed,      \* session -> record id (0 for meta) -> times pushed on cli.ch
    lost,        \* session -> items broadcast discarded from cli.ch minus items a notice reported
    insertLog,   \* record ids in the order enqueue inserted them
    regAtInsert, \* record id -> sessions registered when it was inserted
    regQuiet,    \* session -> number of inserts at registration, -1 if an Append was running
    fullAtAccept,\* session -> the registry held MaxSessions when Accept returned it
    fullAtCheck, \* session -> the registry held MaxSessions when handleNewClient checked
    via,         \* session -> the listener that accepted it
    quiesced,    \* a Stop has returned and Start was not called since it began
    ev,          \* record id -> the Line value appendWithWhen built: [Text, Level]
    epochAtCall, \* record id -> starts + stops when its Append was called, -1 before
    startsAtStop,\* calls of Start when the last Stop began
    \* ---- further observations and environment state
    failedAccepts, \* accept loop -> transient accept errors so far
    failedBefore,  \* session -> failedAccepts of its loop when Accept returned it
    evictions,     \* producer -> items its broadcast received from the current cli.ch
    boundTo,       \* path -> the listener the socket file at it belongs to, 0 for none
    \* ---- the attach client (Attach and its reader goroutine)
    rpc,         \* position of the reader goroutine
    uiLines,     \* u.lines: what the reader appended to the local UI
    uiConfig,    \* number of ApplyConfig calls
    exitCode,    \* the code passed to u.onExit, -1 before
    dials,       \* calls of net.Dial
    consumed     \* what r.ReadBytes has returned so far (an observation)

brokerVars == <<ring, head, capacity, clients, mu, running, listener, socketPath>>
sessVars == <<spc, ch, cur, connOpen, peer, written>>
prodVars == <<apc, arec, todo, acur, dropped, nextRec>>
loopVars == <<lpc, lconn, listenerOpen, nextConn>>
stopVars == <<tpc, stopLn, stopPath, stopCur, starts, stops>>
envVars == <<fs, dirMode, candidates, connLimit, appendLimit, prodLimit,
            startLimit, inputs>>
histVars == <<pushed, lost, insertLog, regAtInsert, regQuiet, fullAtAccept,
              fullAtCheck, via, quiesced>>
auxVars == <<ev, epochAtCall, startsAtStop>>
obsVars == <<failedAccepts, failedBefore, evictions, boundTo>>
attachVars == <<rpc, uiLines, uiConfig, exitCode, dials, consumed>>
vars == <<brokerVars, sessVars, prodVars, loopVars, stopVars, envVars, histVars,
          auxVars, obsVars, attachVars>>

(* ------------------------------- ringMu -------------------------------- *)
Free == [kind |-> "free", id |-> 0]
HeldByAppend(p) == [kind |-> "append", id |-> p]
HeldByStop == [kind |-> "stop", id |-> 0]

(* ------------------------------ channels ------------------------------- *)
\* len(cli.ch) == cap(cli.ch)
IsFull(q) == Len(q) >= ChanCap

\* trySend: the non-blocking send; the channel afterwards
trySend(q, buf) == IF IsFull(q) THEN q ELSE Append(q, buf)

\* trySend's result
trySendOk(q) == ~IsFull(q)

\* safeSend on a channel nobody else touches meanwhile (the caller holds ringMu
\* and is the channel's only receiver): send, or discard the oldest and send
safeSend(q, buf) == IF IsFull(q) THEN Append(Tail(q), buf) ELSE Append(q, buf)

(* ------------------------------- history ------------------------------- *)
\* the slots replay visits, oldest first: (head + i) % capacity for i = 0..capacity-1
ReplayOrder(h, c) == [i \in 1..c |-> (h + i - 1) % c]

RECURSIVE replayFrom(_, _, _, _)
\* replay's loop from its i-th iteration on: the channel after it
replayFrom(q, rg, order, i) ==
    IF i > Len(order) THEN q
    ELSE IF rg[order[i]] # 0
         THEN replayFrom(safeSend(q, Line(rg[order[i]])), rg, order, i + 1)
         ELSE replayFrom(q, rg, order, i + 1)

\* the record ids replay sends, in order
ReplayedIds(rg, order) ==
    LET F[i \in 0..Len(order)] ==
            IF i = 0 THEN <<>>
            ELSE IF rg[order[i]] # 0 THEN Append(F[i - 1], rg[order[i]]) ELSE F[i - 1]
    IN F[Len(order)]

Min(a, b) == IF a < b THEN a ELSE b
LastN(s, k) == SubSeq(s, Len(s) - k + 1, Len(s))
SeqToSet(s) == {s[i] : i \in 1..Len(s)}
CountIn(s, x) == Cardinality({i \in 1..Len(s) : s[i] = x})

\* the push counters after msg was pushed on a channel
Pushed1(f, m) == IF m.type = "notice" THEN f ELSE [f EXCEPT ![m.n] = @ + 1]

RECURSIVE PushedAll(_, _)
PushedAll(f, ids) ==
    IF ids = <<>> THEN f ELSE PushedAll([f EXCEPT ![Head(ids)] = @ + 1], Tail(ids))

(* ----------------------------- file system ----------------------------- *)
\* os.Remove(p): unlinks whatever is at p when the directory allows it (in a
\* sticky directory only the broker's own leftover)
osRemove(f, modes, p) ==
    IF f[p] # "none" /\ (modes[p] = "rw" \/ (modes[p] = "sticky" /\ f[p] # "other"))
    THEN [f EXCEPT ![p] = "none"]
    ELSE f

\* net.Listen("unix", p) succeeds: nothing is at p and the directory is writable
canListen(f, modes, p) == f[p] = "none" /\ modes[p] # "ro"

\* a loop that gives up after its first candidate
listenFromFirstOnly(cands, i, f, modes) ==
    LET p == cands[i]
        f1 == osRemove(f, modes, p)
    IN  IF canListen(f1, modes, p)
        THEN [ok |-> TRUE, path |-> p, fs |-> [f1 EXCEPT ![p] = "broker"]]
        ELSE [ok |-> FALSE, path |-> "", fs |-> f1]

RECURSIVE listenFrom(_, _, _, _)
\* the for loop of listenFirstAvailable from its i-th candidate on
listenFrom(cands, i, f, modes) ==
    IF i > Len(cands)
    THEN [ok |-> FALSE, path |-> "", fs |-> f]
    ELSE LET p == cands[i]
             f1 == osRemove(f, modes, p)
         IN  IF canListen(f1, modes, p)
             THEN [ok |-> TRUE, path |-> p, fs |-> [f1 EXCEPT ![p] = "broker"]]
             ELSE listenFrom(cands, i + 1, f1, modes)

\* listenFirstAvailable: [ok, path, fs afterwards]
listenFirstAvailable(cands, f, modes) ==
    IF Len(cands) = 0
    THEN [ok |-> FALSE, path |-> "", fs |-> f]
    ELSE listenFrom(cands, 1, f, modes)

(* ------------------------------- Init ---------------------------------- *)
\* the state NewBroker leaves, with nothing dialled yet
InitBroker ==
    /\ capacity \in 1..MaxCapacity
    /\ ring = [i \in 0..(capacity - 1) |-> 0]
    /\ head = 0
    /\ clients = {}
    /\ mu = Free
    /\ running = FALSE
    /\ listener = 0
    /\ socketPath = ""
    /\ spc = [c \in Conns |-> "none"]
    /\ ch = [c \in Conns |-> <<>>]
    /\ cur = [c \in Conns |-> Meta]
    /\ connOpen = [c \in Conns |-> FALSE]
    /\ peer = [c \in Conns |-> "reading"]
    /\ written = [c \in Conns |-> <<>>]
    /\ apc = [p \in Producers |-> "idle"]
    /\ arec = [p \in Producers |-> 0]
    /\ todo = [p \in Producers |-> {}]
    /\ acur = [p \in Producers |-> 0]
    /\ dropped = [p \in Producers |-> 0]
    /\ nextRec = 1
    /\ lpc = [l \in Listeners |-> "none"]
    /\ lconn = [l \in Listeners |-> 0]
    /\ listenerOpen = [l \in Listeners |-> FALSE]
    /\ nextConn = 1
    /\ tpc = "idle"
    /\ stopLn = 0
    /\ stopPath = ""
    /\ stopCur = 0
    /\ starts = 0
    /\ stops = 0
    /\ pushed = [c \in Conns |-> [r \in 0..RecBound |-> 0]]
    /\ lost = [c \in Conns |-> 0]
    /\ insertLog = <<>>
    /\ regAtInsert = [r \in 1..RecBound |-> {}]
    /\ regQuiet = [c \in Conns |-> -1]
    /\ fullAtAccept = [c \in Conns |-> FALSE]
    /\ fullAtCheck = [c \in Conns |-> FALSE]
    /\ via = [c \in Conns |-> 0]
    /\ quiesced = FALSE
    /\ ev = [r \in 1..RecBound |-> NoLine]
    /\ epochAtCall = [r \in 1..RecBound |-> -1]
    /\ startsAtStop = 0
    /\ failedAccepts = [l \in Listeners |-> 0]
    /\ failedBefore = [c \in Conns |-> 0]
    /\ evictions = [p \in Producers |-> 0]
    /\ boundTo = [p \in Paths |-> 0]
    /\ rpc = "none"
    /\ uiLines = <<>>
    /\ uiConfig = 0
    /\ exitCode = -1
    /\ dials = 0
    /\ consumed = <<>>

Init ==
    /\ InitBroker
    /\ fs = [p \in Paths |-> "none"]
    /\ dirMode = [p \in Paths |-> "rw"]
    /\ candidates = socketCandidates
    /\ connLimit = MaxConns
    /\ appendLimit = MaxAppends
    /\ prodLimit = NumProducers
    /\ startLimit = MaxStarts
    /\ inputs = {PlainText}

(* ------------------------- Append (producers) -------------------------- *)
\* Append / appendWithWhen up to the call of enqueue: the record is built
appendWithWhen(p) ==
    /\ apc[p] = "idle"
    /\ p <= prodLimit
    /\ nextRec <= appendLimit
    /\ \E line \in inputs :
          ev' = [ev EXCEPT ![nextRec] = [Text |-> line, Level |-> LevelOf(line)]]
    /\ epochAtCall' = [epochAtCall EXCEPT ![nextRec] = starts + stops]
    /\ UNCHANGED startsAtStop
    /\ arec' = [arec EXCEPT ![p] = nextRec]
    /\ nextRec' = nextRec + 1
    /\ apc' = [apc EXCEPT ![p] = "enqueue"]
    /\ UNCHANGED <<brokerVars, sessVars, todo, acur, dropped, loopVars, stopVars,
                   envVars, histVars, obsVars, attachVars>>

\* an insert that is skipped while the broker is not running
enqueueRingWhenRunning(rg, h, r) == IF running THEN [rg EXCEPT ![h] = r] ELSE rg

\* a cursor that never advances
enqueueHeadStuck(h, c) == h

\* the slot enqueue writes and the cursor afterwards
enqueueRing(rg, h, r) == [rg EXCEPT ![h] = r]
enqueueHead(h, c) == (h + 1) % c

\* enqueue: one critical section of ringMu
enqueue(p) ==
    /\ apc[p] = "enqueue"
    /\ mu = Free
    /\ ring' = enqueueRing(ring, head, arec[p])
    /\ head' = enqueueHead(head, capacity)
    /\ apc' = [apc EXCEPT ![p] = "lock"]
    /\ insertLog' = Append(insertLog, arec[p])
    /\ regAtInsert' = [regAtInsert EXCEPT ![arec[p]] = clients]
    /\ UNCHANGED <<capacity, clients, mu, running, listener, socketPath, sessVars,
                   arec, todo, acur, dropped, nextRec, loopVars, stopVars, envVars,
                   pushed, lost, regQuiet, fullAtAccept, fullAtCheck, via, quiesced, auxVars,
                   obsVars, attachVars>>

\* broadcast: b.ringMu.Lock() and the start of the range loop
broadcastLock(p) ==
    /\ apc[p] = "lock"
    /\ mu = Free
    /\ mu' = HeldByAppend(p)
    /\ todo' = [todo EXCEPT ![p] = clients]
    /\ apc' = [apc EXCEPT ![p] = "range"]
    /\ UNCHANGED <<ring, head, capacity, clients, running, listener, socketPath,
                   sessVars, arec, acur, dropped, nextRec, loopVars, stopVars,
                   envVars, histVars, auxVars, obsVars, attachVars>>

\* broadcast: the next iteration of the range loop with its first trySend, or
\* the end of the loop and the deferred Unlock
broadcastRange(p) ==
    /\ apc[p] = "range"
    /\ IF todo[p] = {}
       THEN /\ mu' = Free
            /\ apc' = [apc EXCEPT ![p] = "idle"]
            /\ UNCHANGED <<ch, todo, acur, dropped, pushed>>
       ELSE \E cli \in todo[p] :
            /\ todo' = [todo EXCEPT ![p] = @ \ {cli}]
            /\ acur' = [acur EXCEPT ![p] = cli]
            /\ dropped' = [dropped EXCEPT ![p] = 0]
            /\ ch' = [ch EXCEPT ![cli] = trySend(@, Line(arec[p]))]
            /\ IF trySendOk(ch[cli])
               THEN /\ apc' = apc
                    /\ pushed' = [pushed EXCEPT ![cli] = Pushed1(@, Line(arec[p]))]
               ELSE /\ apc' = [apc EXCEPT ![p] = "evict"]
                    /\ pushed' = pushed
            /\ mu' = mu
    /\ UNCHANGED <<ring, head, capacity, clients, running, listener, socketPath,
                   spc, cur, connOpen, peer, written, arec, nextRec, loopVars,
                   stopVars, envVars, lost, insertLog, regAtInsert, regQuiet,
                   fullAtAccept, fullAtCheck, via, quiesced, auxVars,
                   failedAccepts, failedBefore, boundTo, attachVars>>
    /\ evictions' = IF todo[p] = {} THEN evictions ELSE [evictions EXCEPT ![p] = 0]

\* broadcast: the loop condition len(cli.ch) == cap(cli.ch)
broadcastLen(p) ==
    /\ apc[p] = "evict"
    /\ apc' = [apc EXCEPT ![p] = IF IsFull(ch[acur[p]]) THEN "recv" ELSE "resend"]
    /\ UNCHANGED <<brokerVars, sessVars, arec, todo, acur, dropped, nextRec,
                   loopVars, stopVars, envVars, histVars, auxVars,
                   obsVars, attachVars>>

\* broadcast: <-cli.ch; dropped++ (a receive: it waits while the channel is empty)
broadcastRecv(p) ==
    /\ apc[p] = "recv"
    /\ ch[acur[p]] # <<>>
    /\ ch' = [ch EXCEPT ![acur[p]] = Tail(@)]
    /\ dropped' = [dropped EXCEPT ![p] = @ + 1]
    /\ lost' = [lost EXCEPT ![acur[p]] = @ + 1]
    /\ apc' = [apc EXCEPT ![p] = "evict"]
    /\ UNCHANGED <<brokerVars, spc, cur, connOpen, peer, written, arec, todo, acur,
                   nextRec, loopVars, stopVars, envVars, pushed, insertLog,
                   regAtInsert, regQuiet, fullAtAccept, fullAtCheck, via, quiesced, auxVars,
                   failedAccepts, failedBefore, boundTo, attachVars>>
    /\ evictions' = [evictions EXCEPT ![p] = @ + Len(ch[acur[p]]) - Len(ch'[acur[p]])]

\* broadcast: _ = b.trySend(cli, buf) after the eviction loop
broadcastResend(p) ==
    /\ apc[p] = "resend"
    /\ ch' = [ch EXCEPT ![acur[p]] = trySend(@, Line(arec[p]))]
    /\ pushed' = IF trySendOk(ch[acur[p]])
                 THEN [pushed EXCEPT ![acur[p]] = Pushed1(@, Line(arec[p]))]
                 ELSE pushed
    /\ apc' = [apc EXCEPT ![p] = IF dropped[p] > 0 THEN "notice" ELSE "range"]
    /\ UNCHANGED <<brokerVars, spc, cur, connOpen, peer, written, arec, todo, acur,
                   dropped, nextRec, loopVars, stopVars, envVars, lost, insertLog,
                   regAtInsert, regQuiet, fullAtAccept, fullAtCheck, via, quiesced, auxVars,
                   obsVars, attachVars>>

\* a notice that counts one line too many
broadcastNoticeOffByOne(p) ==
    /\ apc[p] = "notice"
    /\ ch' = [ch EXCEPT ![acur[p]] = trySend(@, Notice(dropped[p] + 1))]
    /\ lost' = IF trySendOk(ch[acur[p]])
               THEN [lost EXCEPT ![acur[p]] = @ - dropped[p]]
               ELSE lost
    /\ apc' = [apc EXCEPT ![p] = "range"]
    /\ UNCHANGED <<brokerVars, spc, cur, connOpen, peer, written, arec, todo, acur,
                   dropped, nextRec, loopVars, stopVars, envVars, pushed, insertLog,
                   regAtInsert, regQuiet, fullAtAccept, fullAtCheck, via, quiesced, auxVars,
                   obsVars, attachVars>>

\* broadcast: _ = b.trySend(cli, nb), the lagged notice
broadcastNotice(p) ==
    /\ apc[p] = "notice"
    /\ ch' = [ch EXCEPT ![acur[p]] = trySend(@, Notice(dropped[p]))]
    /\ lost' = IF trySendOk(ch[acur[p]])
               THEN [lost EXCEPT ![acur[p]] = @ - dropped[p]]
               ELSE lost
    /\ apc' = [apc EXCEPT ![p] = "range"]
    /\ UNCHANGED <<brokerVars, spc, cur, connOpen, peer, written, arec, todo, acur,
                   dropped, nextRec, loopVars, stopVars, envVars, pushed, insertLog,
                   regAtInsert, regQuiet, fullAtAccept, fullAtCheck, via, quiesced, auxVars,
                   obsVars, attachVars>>

(* ------------------------- sessions (handleNewClient) ------------------ *)
\* the ceiling test off by one (len(b.clients) > 5)
atCeilingOffByOne(n) == n > MaxSessions

\* the ceiling test of handleNewClient: len(b.clients) >= 5
atCeiling(n) == n >= MaxSessions

\* handleNewClient up to the go statement: one critical section of ringMu, in
\* the accept loop's goroutine; a rejected connection is closed
handleNewClient(l) ==
    /\ lpc[l] = "handle"
    /\ mu = Free
    /\ LET c == lconn[l] IN
       /\ fullAtCheck' = [fullAtCheck EXCEPT ![c] = Cardinality(clients) >= MaxSessions]
       /\ IF atCeiling(Cardinality(clients))
          THEN /\ spc' = [spc EXCEPT ![c] = "rejected"]
               /\ connOpen' = [connOpen EXCEPT ![c] = FALSE]
               /\ UNCHANGED <<clients, regQuiet>>
          ELSE /\ clients' = clients \cup {c}
               /\ spc' = [spc EXCEPT ![c] = "meta"]
               /\ regQuiet' = [regQuiet EXCEPT ![c] =
                                 IF \A p \in Producers : apc[p] = "idle"
                                 THEN Len(insertLog) ELSE -1]
               /\ UNCHANGED connOpen
    /\ lpc' = [lpc EXCEPT ![l] = "accept"]
    /\ lconn' = [lconn EXCEPT ![l] = 0]
    /\ UNCHANGED <<ring, head, capacity, mu, running, listener, socketPath, ch, cur,
                   peer, written, prodVars, listenerOpen, nextConn, stopVars, envVars,
                   pushed, lost, insertLog, regAtInsert, fullAtAccept, via, quiesced, auxVars,
                   obsVars, attachVars>>

\* safeSend(cli, b.metaBuf): the select; its default case leads to the receive
metaSelect(c) ==
    /\ spc[c] = "meta"
    /\ IF IsFull(ch[c])
       THEN /\ spc' = [spc EXCEPT ![c] = "metaRecv"]
            /\ UNCHANGED <<ch, pushed>>
       ELSE /\ ch' = [ch EXCEPT ![c] = Append(@, Meta)]
            /\ pushed' = [pushed EXCEPT ![c] = Pushed1(@, Meta)]
            /\ spc' = [spc EXCEPT ![c] = "replay"]
    /\ UNCHANGED <<brokerVars, cur, connOpen, peer, written, prodVars, loopVars,
                   stopVars, envVars, lost, insertLog, regAtInsert, regQuiet,
                   fullAtAccept, fullAtCheck, via, quiesced, auxVars,
                   obsVars, attachVars>>

\* safeSend(cli, b.metaBuf): <-cli.ch of the default case
metaRecv(c) ==
    /\ spc[c] = "metaRecv"
    /\ ch[c] # <<>>
    /\ ch' = [ch EXCEPT ![c] = Tail(@)]
    /\ spc' = [spc EXCEPT ![c] = "metaSend"]
    /\ UNCHANGED <<brokerVars, cur, connOpen, peer, written, prodVars, loopVars,
                   stopVars, envVars, pushed, lost, insertLog, regAtInsert, regQuiet,
                   fullAtAccept, fullAtCheck, via, quiesced, auxVars,
                   obsVars, attachVars>>

\* safeSend(cli, b.metaBuf): cli.ch <- buf of the default case (a blocking send)
metaSend(c) ==
    /\ spc[c] = "metaSend"
    /\ ~IsFull(ch[c])
    /\ ch' = [ch EXCEPT ![c] = Append(@, Meta)]
    /\ pushed' = [pushed EXCEPT ![c] = Pushed1(@, Meta)]
    /\ spc' = [spc EXCEPT ![c] = "replay"]
    /\ UNCHANGED <<brokerVars, cur, connOpen, peer, written, prodVars, loopVars,
                   stopVars, envVars, lost, insertLog, regAtInsert, regQuiet,
                   fullAtAccept, fullAtCheck, via, quiesced, auxVars,
                   obsVars, attachVars>>

\* the channel after replay(cli)
replayChan(q, rg, h, c) == replayFrom(q, rg, ReplayOrder(h, c), 1)

\* replay: one critical section of ringMu; nobody else touches cli.ch meanwhile
replay(c) ==
    /\ spc[c] = "replay"
    /\ mu = Free
    /\ ch' = [ch EXCEPT ![c] = replayChan(@, ring, head, capacity)]
    /\ pushed' = [pushed EXCEPT ![c] =
                    PushedAll(@, ReplayedIds(ring, ReplayOrder(head, capacity)))]
    /\ spc' = [spc EXCEPT ![c] = "recv"]
    /\ UNCHANGED <<brokerVars, cur, connOpen, peer, written, prodVars, loopVars,
                   stopVars, envVars, lost, insertLog, regAtInsert, regQuiet,
                   fullAtAccept, fullAtCheck, via, quiesced, auxVars,
                   obsVars, attachVars>>

\* the drain loop: msg := <-cli.ch and cli.bw.Write(msg), which only buffers
drainRecv(c) ==
    /\ spc[c] = "recv"
    /\ ch[c] # <<>>
    /\ cur' = [cur EXCEPT ![c] = Head(ch[c])]
    /\ ch' = [ch EXCEPT ![c] = Tail(@)]
    /\ spc' = [spc EXCEPT ![c] = "flush"]
    /\ UNCHANGED <<brokerVars, connOpen, peer, written, prodVars, loopVars,
                   stopVars, envVars, histVars, auxVars,
                   obsVars, attachVars>>

\* the write to the transport fails: the connection was closed or the peer left
writeFails(c) == ~connOpen[c] \/ peer[c] = "gone"

\* the drain loop: cli.bw.Flush(), the write to the transport; it waits while
\* the peer does not read, and an error leads to the deferred cleanup
drainFlush(c) ==
    /\ spc[c] = "flush"
    /\ IF writeFails(c)
       THEN /\ spc' = [spc EXCEPT ![c] = "cleanup"]
            /\ UNCHANGED written
       ELSE /\ peer[c] = "reading"
            /\ written' = [written EXCEPT ![c] = Append(@, cur[c])]
            /\ spc' = [spc EXCEPT ![c] = "recv"]
    /\ UNCHANGED <<brokerVars, ch, cur, connOpen, peer, prodVars, loopVars,
                   stopVars, envVars, histVars, auxVars,
                   obsVars, attachVars>>

\* a deferred function that clears the whole registry
cleanupClearsRegistry(c) ==
    /\ spc[c] = "cleanup"
    /\ mu = Free
    /\ clients' = {}
    /\ spc' = [spc EXCEPT ![c] = "close"]
    /\ UNCHANGED <<ring, head, capacity, mu, running, listener, socketPath, ch, cur,
                   connOpen, peer, written, prodVars, loopVars, stopVars, envVars,
                   histVars, auxVars, obsVars, attachVars>>

\* the deferred function: delete(b.clients, cli) under ringMu
cleanup(c) ==
    /\ spc[c] = "cleanup"
    /\ mu = Free
    /\ clients' = clients \ {c}
    /\ spc' = [spc EXCEPT ![c] = "close"]
    /\ UNCHANGED <<ring, head, capacity, mu, running, listener, socketPath, ch, cur,
                   connOpen, peer, written, prodVars, loopVars, stopVars, envVars,
                   histVars, auxVars, obsVars, attachVars>>

\* the deferred function: conn.Close()
closeConn(c) ==
    /\ spc[c] = "close"
    /\ connOpen' = [connOpen EXCEPT ![c] = FALSE]
    /\ spc' = [spc EXCEPT ![c] = "done"]
    /\ UNCHANGED <<brokerVars, ch, cur, peer, written, prodVars, loopVars,
                   stopVars, envVars, histVars, auxVars,
                   obsVars, attachVars>>

(* ------------------------------ the peers ------------------------------ *)
Connected(c) == spc[c] \notin {"none", "rejected", "done"}

\* the viewer stops reading: writes to it block from now on
peerStall(c) ==
    /\ Connected(c)
    /\ peer[c] = "reading"
    /\ peer' = [peer EXCEPT ![c] = "stalled"]
    /\ UNCHANGED <<brokerVars, spc, ch, cur, connOpen, written, prodVars, loopVars,
                   stopVars, envVars, histVars, auxVars,
                   obsVars, attachVars>>

\* the viewer closes its end: writes to it fail from now on
peerClose(c) ==
    /\ Connected(c)
    /\ peer[c] # "gone"
    /\ peer' = [peer EXCEPT ![c] = "gone"]
    /\ UNCHANGED <<brokerVars, spc, ch, cur, connOpen, written, prodVars, loopVars,
                   stopVars, envVars, histVars, auxVars,
                   obsVars, attachVars>>

(* ------------------------- Start and the accept loop ------------------- *)
\* Start: listenFirstAvailable, then the stateMu section and the go statement;
\* on an error it returns before touching the broker
Start ==
    /\ starts < startLimit
    /\ starts' = starts + 1
    /\ LET r == listenFirstAvailable(candidates, fs, dirMode)
           l == starts + 1
       IN  /\ fs' = r.fs
           /\ IF r.ok
              THEN /\ running' = TRUE
                   /\ listener' = l
                   /\ socketPath' = r.path
                   /\ listenerOpen' = [listenerOpen EXCEPT ![l] = TRUE]
                   /\ lpc' = [lpc EXCEPT ![l] = "accept"]
                   /\ quiesced' = FALSE
              ELSE UNCHANGED <<running, listener, socketPath, listenerOpen, lpc,
                               quiesced>>
    /\ UNCHANGED <<ring, head, capacity, clients, mu, sessVars, prodVars, lconn,
                   nextConn, tpc, stopLn, stopPath, stopCur, stops, dirMode,
                   candidates, connLimit, appendLimit, prodLimit, startLimit, inputs,
                   pushed, lost, insertLog, regAtInsert,
                   regQuiet, fullAtAccept, fullAtCheck, via, auxVars,
                   failedAccepts, failedBefore, evictions, attachVars>>
    /\ boundTo' = LET r == listenFirstAvailable(candidates, fs, dirMode) IN
                  [p \in Paths |-> IF r.ok /\ p = r.path THEN starts + 1
                                   ELSE IF r.fs[p] = "broker" THEN boundTo[p] ELSE 0]

\* the accept loop: ln.Accept() returns a connection
accept(l) ==
    /\ lpc[l] = "accept"
    /\ listenerOpen[l]
    /\ nextConn <= connLimit
    /\ LET c == nextConn IN
       /\ spc' = [spc EXCEPT ![c] = "accepted"]
       /\ connOpen' = [connOpen EXCEPT ![c] = TRUE]
       /\ lconn' = [lconn EXCEPT ![l] = c]
       /\ via' = [via EXCEPT ![c] = l]
       /\ fullAtAccept' = [fullAtAccept EXCEPT ![c] = Cardinality(clients) >= MaxSessions]
    /\ nextConn' = nextConn + 1
    /\ lpc' = [lpc EXCEPT ![l] = "handle"]
    /\ UNCHANGED <<brokerVars, ch, cur, peer, written, prodVars, listenerOpen,
                   stopVars, envVars, pushed, lost, insertLog, regAtInsert, regQuiet,
                   fullAtCheck, quiesced, auxVars, failedAccepts, evictions, boundTo, attachVars>>
    /\ failedBefore' = [failedBefore EXCEPT ![nextConn] = failedAccepts[l]]

\* an accept loop that returns on any accept error
acceptTransientExits(l) ==
    /\ lpc[l] = "accept"
    /\ listenerOpen[l]
    /\ failedAccepts[l] < MaxAcceptErrors
    /\ failedAccepts' = [failedAccepts EXCEPT ![l] = @ + 1]
    /\ lpc' = [lpc EXCEPT ![l] = "exited"]
    /\ UNCHANGED <<brokerVars, sessVars, prodVars, lconn, listenerOpen, nextConn,
                   stopVars, envVars, histVars, auxVars, failedBefore, evictions,
                   boundTo, attachVars>>

\* the accept loop: ln.Accept() fails although the listener is open (a
\* transient error); the loop returns when b.running is false and goes round
\* again otherwise
acceptTransient(l) ==
    /\ lpc[l] = "accept"
    /\ listenerOpen[l]
    /\ failedAccepts[l] < MaxAcceptErrors
    /\ failedAccepts' = [failedAccepts EXCEPT ![l] = @ + 1]
    /\ lpc' = [lpc EXCEPT ![l] = IF running THEN "accept" ELSE "exited"]
    /\ UNCHANGED <<brokerVars, sessVars, prodVars, lconn, listenerOpen, nextConn,
                   stopVars, envVars, histVars, auxVars, failedBefore, evictions,
                   boundTo, attachVars>>

\* the accept loop: ln.Accept() fails on the closed listener; the loop returns
\* when b.running is false and goes round again otherwise
acceptError(l) ==
    /\ lpc[l] = "accept"
    /\ ~listenerOpen[l]
    /\ lpc' = [lpc EXCEPT ![l] = IF running THEN "accept" ELSE "exited"]
    /\ UNCHANGED <<brokerVars, sessVars, prodVars, lconn, listenerOpen, nextConn,
                   stopVars, envVars, histVars, auxVars,
                   obsVars, attachVars>>

(* --------------------------------- Stop -------------------------------- *)
\* Stop: the stateMu section
stopState ==
    /\ tpc = "idle"
    /\ stops < MaxStops
    /\ stops' = stops + 1
    /\ startsAtStop' = starts
    /\ UNCHANGED <<ev, epochAtCall>>
    /\ stopLn' = listener
    /\ stopPath' = socketPath
    /\ running' = FALSE
    /\ listener' = 0
    /\ socketPath' = ""
    /\ tpc' = "close"
    /\ UNCHANGED <<ring, head, capacity, clients, mu, sessVars, prodVars, loopVars,
                   stopCur, starts, envVars, histVars, obsVars, attachVars>>

\* a Stop that closes the listener and leaves the socket file behind
stopListenerKeepsFile ==
    /\ tpc = "close"
    /\ listenerOpen' = IF stopLn # 0 THEN [listenerOpen EXCEPT ![stopLn] = FALSE]
                       ELSE listenerOpen
    /\ tpc' = "lock"
    /\ UNCHANGED <<brokerVars, sessVars, prodVars, lpc, lconn, nextConn, stopLn,
                   stopPath, stopCur, starts, stops, envVars, histVars, auxVars,
                   obsVars, attachVars>>

\* Stop: ln.Close() and os.Remove(path)
stopListener ==
    /\ tpc = "close"
    /\ listenerOpen' = IF stopLn # 0 THEN [listenerOpen EXCEPT ![stopLn] = FALSE]
                       ELSE listenerOpen
    /\ fs' = IF stopPath # "" THEN osRemove(fs, dirMode, stopPath) ELSE fs
    /\ tpc' = "lock"
    /\ UNCHANGED <<brokerVars, sessVars, prodVars, lpc, lconn, nextConn, stopLn,
                   stopPath, stopCur, starts, stops, dirMode, candidates, connLimit,
                   appendLimit, prodLimit, startLimit, inputs, histVars, auxVars,
                   failedAccepts, failedBefore, evictions, attachVars>>
    /\ boundTo' = [p \in Paths |-> IF p = stopPath /\ osRemove(fs, dirMode, p)[p] = "none"
                                   THEN 0 ELSE boundTo[p]]

\* Stop: b.ringMu.Lock()
stopLock ==
    /\ tpc = "lock"
    /\ mu = Free
    /\ mu' = HeldByStop
    /\ tpc' = "range"
    /\ UNCHANGED <<ring, head, capacity, clients, running, listener, socketPath,
                   sessVars, prodVars, loopVars, stopLn, stopPath, stopCur, starts,
                   stops, envVars, histVars, auxVars, obsVars, attachVars>>

\* Stop: the next iteration of the range loop, or its end, the Unlock and the return
stopRange ==
    /\ tpc = "range"
    /\ IF clients = {}
       THEN /\ mu' = Free
            /\ tpc' = "idle"
            /\ quiesced' = (starts = startsAtStop)
            /\ UNCHANGED stopCur
       ELSE /\ \E cli \in clients : stopCur' = cli
            /\ tpc' = "flush"
            /\ UNCHANGED <<mu, quiesced>>
    /\ UNCHANGED <<ring, head, capacity, clients, running, listener, socketPath,
                   sessVars, prodVars, loopVars, stopLn, stopPath, starts, stops,
                   envVars, pushed, lost, insertLog, regAtInsert, regQuiet,
                   fullAtAccept, fullAtCheck, via, auxVars,
                   obsVars, attachVars>>

\* cli.bw holds bytes the drain goroutine is flushing
bwPending(c) == spc[c] = "flush"

\* Stop's cli.bw.Flush() has bytes to write and the transport does not take them
stopFlushBlocks(c) == bwPending(c) /\ connOpen[c] /\ peer[c] = "stalled"

\* Stop: _ = cli.bw.Flush(), unsynchronised with the drain goroutine: it writes
\* the bytes the drain goroutine has buffered, and waits on a stalled transport
stopFlush ==
    /\ tpc = "flush"
    /\ ~stopFlushBlocks(stopCur)
    /\ written' = IF bwPending(stopCur) /\ ~writeFails(stopCur)
                  THEN [written EXCEPT ![stopCur] = Append(@, cur[stopCur])]
                  ELSE written
    /\ tpc' = "closeCli"
    /\ UNCHANGED <<brokerVars, spc, ch, cur, connOpen, peer, prodVars, loopVars,
                   stopLn, stopPath, stopCur, starts, stops, envVars, histVars, auxVars,
                   obsVars, attachVars>>

\* Stop: _ = cli.conn.Close(); delete(b.clients, cli)
stopCloseClient ==
    /\ tpc = "closeCli"
    /\ connOpen' = [connOpen EXCEPT ![stopCur] = FALSE]
    /\ clients' = clients \ {stopCur}
    /\ tpc' = "range"
    /\ UNCHANGED <<ring, head, capacity, mu, running, listener, socketPath, spc, ch,
                   cur, peer, written, prodVars, loopVars, stopLn, stopPath, stopCur,
                   starts, stops, envVars, histVars, auxVars,
                   obsVars, attachVars>>

(* ------------------- the attach client (unnamed/part_000) -------------- *)
\* what r.ReadBytes returns: a record (well-formed JSON or not, its "type"
\* member, whether it decodes into the Go type of that name), or the end
DataRead(valid, type, bodyOk) ==
    [kind |-> "data", valid |-> valid, type |-> type, bodyOk |-> bodyOk]
EndOfStream == [kind |-> "eof", valid |-> FALSE, type |-> "", bodyOk |-> FALSE]
ReadError == [kind |-> "error", valid |-> FALSE, type |-> "", bodyOk |-> FALSE]
RecordTypes == {"meta", "line", "notice", "debug", ""}
ReadResults ==
    {DataRead(FALSE, "", FALSE)}
    \cup {DataRead(TRUE, t, b) : t \in RecordTypes, b \in BOOLEAN}
    \cup {EndOfStream, ReadError}

\* the line Attach shows when the stream ends
DisconnectNotice == "disconnected"

\* a reader for which a record that is not JSON is fatal too
readEndsOnBadJson(x) == x.kind # "data" \/ ~x.valid

\* r.ReadBytes returned err != nil
readEnds(x) == x.kind # "data"

\* json.Unmarshal(b, &typ) fails
peekFails(x) == ~x.valid

\* u.lines after the switch on typ.Type
showRecord(lines, x) ==
    IF x.type \in {"line", "notice"} /\ x.bodyOk THEN Append(lines, x.type) ELSE lines

\* Attach: net.Dial and the go statement of the reader
Attach ==
    /\ rpc = "none"
    /\ dials' = dials + 1
    /\ \E ok \in BOOLEAN : rpc' = IF ok THEN "read" ELSE "failed"
    /\ UNCHANGED <<brokerVars, sessVars, prodVars, loopVars, stopVars, envVars,
                   histVars, auxVars, obsVars, uiLines, uiConfig, exitCode,
                   consumed>>

\* one iteration of the reader's loop: ReadBytes, then the disconnect and the
\* return, or the peek at the type and the switch
readerStep ==
    /\ rpc = "read"
    /\ Len(consumed) < MaxReads
    /\ \E x \in ReadResults :
          /\ consumed' = Append(consumed, x)
          /\ IF readEnds(x)
             THEN /\ uiLines' = Append(uiLines, DisconnectNotice)
                  /\ exitCode' = 1
                  /\ rpc' = "exited"
                  /\ UNCHANGED uiConfig
             ELSE /\ rpc' = "read"
                  /\ exitCode' = exitCode
                  /\ IF peekFails(x)
                     THEN UNCHANGED <<uiLines, uiConfig>>
                     ELSE /\ uiLines' = showRecord(uiLines, x)
                          /\ uiConfig' = IF x.type = "meta" /\ x.bodyOk
                                         THEN uiConfig + 1 ELSE uiConfig
    /\ UNCHANGED <<brokerVars, sessVars, prodVars, loopVars, stopVars, envVars,
                   histVars, auxVars, obsVars, dials>>

(* ------------------------------ behaviours ----------------------------- *)
ProducerStep(p) ==
    \/ appendWithWhen(p)
    \/ enqueue(p)
    \/ broadcastLock(p)
    \/ broadcastRange(p)
    \/ broadcastLen(p)
    \/ broadcastRecv(p)
    \/ broadcastResend(p)
    \/ broadcastNotice(p)

SessionStep(c) ==
    \/ metaSelect(c)
    \/ metaRecv(c)
    \/ metaSend(c)
    \/ replay(c)
    \/ drainRecv(c)
    \/ drainFlush(c)
    \/ cleanup(c)
    \/ closeConn(c)

AcceptStep(l) ==
    \/ accept(l)
    \/ acceptError(l)
    \/ handleNewClient(l)

StopStep ==
    \/ stopState
    \/ stopListener
    \/ stopLock
    \/ stopRange
    \/ stopFlush
    \/ stopCloseClient

PeerStep(c) ==
    \/ peerStall(c)
    \/ peerClose(c)

\* producers, one listener and its sessions, the viewers; Stop is not called
Next ==
    \/ \E p \in Producers : ProducerStep(p)
    \/ \E c \in Conns : SessionStep(c)
    \/ \E l \in Listeners : accept(l)
    \/ \E l \in Listeners : handleNewClient(l)
    \/ Start
    \/ \E c \in Conns : PeerStep(c)

Spec == Init /\ [][Next]_vars

\* the same with one producer and with Stop called; every goroutine of the
\* broker and every caller that can take a step eventually takes one (the Go
\* scheduler), the viewers owe nothing
InitStop ==
    /\ InitBroker
    /\ fs = [p \in Paths |-> "none"]
    /\ dirMode = [p \in Paths |-> "rw"]
    /\ candidates = socketCandidates
    /\ connLimit = MaxConns
    /\ appendLimit = StopAppends
    /\ prodLimit = 1
    /\ startLimit = MaxStarts
    /\ inputs = {PlainText}

NextStop ==
    \/ \E p \in Producers : ProducerStep(p)
    \/ \E c \in Conns : SessionStep(c)
    \/ \E l \in Listeners : AcceptStep(l)
    \/ Start
    \/ StopStep
    \/ \E c \in Conns : PeerStep(c)

Scheduling ==
    /\ \A p \in Producers : WF_vars(ProducerStep(p))
    /\ \A c \in Conns : WF_vars(SessionStep(c))
    /\ \A l \in Listeners : WF_vars(AcceptStep(l))
    /\ WF_vars(StopStep)

SpecStop == InitStop /\ [][NextStop]_vars /\ Scheduling

\* two sessions, one producer, Stop; the caller appends and stops only once
\* both viewers are attached; a viewer may stop reading but none leaves
InitIso ==
    /\ InitBroker
    /\ capacity = 1
    /\ fs = [p \in Paths |-> "none"]
    /\ dirMode = [p \in Paths |-> "rw"]
    /\ candidates = socketCandidates
    /\ connLimit = IsoConns
    /\ appendLimit = 1
    /\ prodLimit = 1
    /\ startLimit = MaxStarts
    /\ inputs = {PlainText}

Attached == Cardinality(clients) = connLimit

NextIso ==
    \/ \E p \in Producers : Attached /\ appendWithWhen(p)
    \/ \E p \in Producers : enqueue(p)
    \/ \E p \in Producers : broadcastLock(p)
    \/ \E p \in Producers : broadcastRange(p)
    \/ \E c \in Conns : metaSelect(c)
    \/ \E c \in Conns : replay(c)
    \/ \E c \in Conns : drainRecv(c)
    \/ \E c \in Conns : drainFlush(c)
    \/ \E c \in Conns : cleanup(c)
    \/ \E c \in Conns : closeConn(c)
    \/ \E l \in Listeners : AcceptStep(l)
    \/ Start
    \/ Attached /\ stopState
    \/ stopListener
    \/ stopLock
    \/ stopRange
    \/ stopFlush
    \/ stopCloseClient
    \/ \E c \in 1..IsoStallers : peerStall(c)

SpecIso == InitIso /\ [][NextIso]_vars /\ Scheduling

\* two sessions, one producer, Stop; the first viewer may hang up
NextFail ==
    \/ \E p \in Producers : Attached /\ appendWithWhen(p)
    \/ \E p \in Producers : enqueue(p)
    \/ \E p \in Producers : broadcastLock(p)
    \/ \E p \in Producers : broadcastRange(p)
    \/ \E c \in Conns : metaSelect(c)
    \/ \E c \in Conns : replay(c)
    \/ \E c \in Conns : drainRecv(c)
    \/ \E c \in Conns : drainFlush(c)
    \/ \E c \in Conns : cleanup(c)
    \/ \E c \in Conns : closeConn(c)
    \/ \E l \in Listeners : AcceptStep(l)
    \/ Start
    \/ StopStep
    \/ \E c \in 1..IsoStallers : peerClose(c)

SpecFail == InitIso /\ [][NextFail]_vars

\* six connections against the ceiling of five; nothing is appended
InitAdmit ==
    /\ InitBroker
    /\ capacity = 1
    /\ fs = [p \in Paths |-> "none"]
    /\ dirMode = [p \in Paths |-> "rw"]
    /\ candidates = socketCandidates
    /\ connLimit = AdmitConns
    /\ appendLimit = 0
    /\ prodLimit = 0
    /\ startLimit = MaxStarts
    /\ inputs = {PlainText}

NextAdmit ==
    \/ \E c \in Conns : metaSelect(c)
    \/ \E c \in Conns : replay(c)
    \/ \E c \in Conns : drainRecv(c)
    \/ \E c \in Conns : drainFlush(c)
    \/ \E c \in Conns : cleanup(c)
    \/ \E c \in Conns : closeConn(c)
    \/ \E l \in Listeners : accept(l)
    \/ \E l \in Listeners : handleNewClient(l)
    \/ Start
    \/ \E c \in 1..AdmitLeavers : peerClose(c)

SpecAdmit == InitAdmit /\ [][NextAdmit]_vars

\* Start and Stop over every state of the two candidate paths
InitLife ==
    /\ InitBroker
    /\ capacity = 1
    /\ fs \in [Paths -> {"none", "other", "stale"}]
    /\ dirMode \in [Paths -> {"rw", "sticky", "ro"}]
    /\ candidates \in CandidateLists
    /\ connLimit = MaxConns
    /\ appendLimit = 0
    /\ prodLimit = 0
    /\ startLimit = MaxStarts
    /\ inputs = {PlainText}

NextLife ==
    \/ \E c \in Conns : metaSelect(c)
    \/ \E c \in Conns : replay(c)
    \/ \E c \in Conns : drainRecv(c)
    \/ \E c \in Conns : drainFlush(c)
    \/ \E c \in Conns : cleanup(c)
    \/ \E c \in Conns : closeConn(c)
    \/ \E l \in Listeners : AcceptStep(l)
    \/ Start
    \/ StopStep

SpecLife == InitLife /\ [][NextLife]_vars

\* the whole life cycle: Append before Start, while running and after Stop,
\* then Start again; the viewers read
InitCycle ==
    /\ InitBroker
    /\ capacity = 1
    /\ fs = [p \in Paths |-> "none"]
    /\ dirMode = [p \in Paths |-> "rw"]
    /\ candidates = socketCandidates
    /\ connLimit = MaxConns
    /\ appendLimit = CycleAppends
    /\ prodLimit = 1
    /\ startLimit = CycleStarts
    /\ inputs = {PlainText}

NextCycle ==
    \/ \E p \in Producers : ProducerStep(p)
    \/ \E c \in Conns : metaSelect(c)
    \/ \E c \in Conns : replay(c)
    \/ \E c \in Conns : drainRecv(c)
    \/ \E c \in Conns : drainFlush(c)
    \/ \E c \in Conns : cleanup(c)
    \/ \E c \in Conns : closeConn(c)
    \/ \E l \in Listeners : AcceptStep(l)
    \/ Start
    \/ StopStep

SpecCycle == InitCycle /\ [][NextCycle]_vars /\ Scheduling

\* the level derivation over the texts of Texts; nothing is started
InitLevel ==
    /\ InitBroker
    /\ capacity = 1
    /\ fs = [p \in Paths |-> "none"]
    /\ dirMode = [p \in Paths |-> "rw"]
    /\ candidates = socketCandidates
    /\ connLimit = 0
    /\ appendLimit = 1
    /\ prodLimit = 1
    /\ startLimit = 0
    /\ inputs = Texts

NextLevel ==
    \/ \E p \in Producers : appendWithWhen(p)
    \/ \E p \in Producers : enqueue(p)
    \/ \E p \in Producers : broadcastLock(p)
    \/ \E p \in Producers : broadcastRange(p)

SpecLevel == InitLevel /\ [][NextLevel]_vars

\* one listener whose Accept fails now and then, its sessions, Stop
InitAccept ==
    /\ InitBroker
    /\ capacity = 1
    /\ fs = [p \in Paths |-> "none"]
    /\ dirMode = [p \in Paths |-> "rw"]
    /\ candidates = socketCandidates
    /\ connLimit = IsoConns
    /\ appendLimit = 0
    /\ prodLimit = 0
    /\ startLimit = MaxStarts
    /\ inputs = {PlainText}

NextAccept ==
    \/ \E c \in Conns : metaSelect(c)
    \/ \E c \in Conns : replay(c)
    \/ \E c \in Conns : drainRecv(c)
    \/ \E c \in Conns : drainFlush(c)
    \/ \E c \in Conns : cleanup(c)
    \/ \E c \in Conns : closeConn(c)
    \/ \E l \in Listeners : AcceptStep(l)
    \/ \E l \in Listeners : acceptTransient(l)
    \/ Start
    \/ StopStep

SpecAccept == InitAccept /\ [][NextAccept]_vars

\* Start called twice, Stop, one connection; nothing is appended
InitDouble ==
    /\ InitBroker
    /\ capacity = 1
    /\ fs = [p \in Paths |-> "none"]
    /\ dirMode = [p \in Paths |-> "rw"]
    /\ candidates = socketCandidates
    /\ connLimit = IsoConns
    /\ appendLimit = 0
    /\ prodLimit = 0
    /\ startLimit = CycleStarts
    /\ inputs = {PlainText}

SpecDouble == InitDouble /\ [][NextLife]_vars

\* six connections against the ceiling of five, over two accept loops (Start
\* called twice), with Stop and a viewer that hangs up; only the goroutines of
\* the sessions 1..AdmitLeavers get to run, the caller starts the second
\* listener when one slot is left and stops when the registry is full
InitCeiling ==
    /\ InitBroker
    /\ capacity = 1
    /\ fs = [p \in Paths |-> "none"]
    /\ dirMode = [p \in Paths |-> "rw"]
    /\ candidates = socketCandidates
    /\ connLimit = AdmitConns
    /\ appendLimit = 0
    /\ prodLimit = 0
    /\ startLimit = CycleStarts
    /\ inputs = {PlainText}

NextCeiling ==
    \/ \E c \in 1..AdmitLeavers : metaSelect(c)
    \/ \E c \in 1..AdmitLeavers : replay(c)
    \/ \E c \in 1..AdmitLeavers : drainRecv(c)
    \/ \E c \in 1..AdmitLeavers : drainFlush(c)
    \/ \E c \in 1..AdmitLeavers : cleanup(c)
    \/ \E c \in 1..AdmitLeavers : closeConn(c)
    \/ \E l \in Listeners : AcceptStep(l)
    \/ (starts = 0 \/ Cardinality(clients) = MaxSessions - 1) /\ Start
    \/ Cardinality(clients) = MaxSessions /\ stopState
    \/ stopListener
    \/ stopLock
    \/ stopRange
    \/ stopFlush
    \/ stopCloseClient
    \/ \E c \in 1..AdmitLeavers : peerClose(c)

SpecCeiling == InitCeiling /\ [][NextCeiling]_vars

\* the attach client alone, reading whatever the stream brings
NextAttach ==
    \/ Attach
    \/ readerStep

InitAttach == InitLevel

SpecAttach == InitAttach /\ [][NextAttach]_vars

(* ------------------------------- claims -------------------------------- *)
\* the Append call of record r has returned
Returned(r) == r < nextRec /\ \A p \in Producers : ~(arec[p] = r /\ apc[p] # "idle")

\* session c is registered and past its replay
Live(c) == c \in clients /\ spc[c] \in {"recv", "flush"}

\* C1: replay/live atomicity.  No session's channel receives a line record
\* twice, and a record inserted while the session was registered, whose Append
\* has returned, has been received once by a session that is past its replay.
ReplayLiveExactlyOnce ==
    \A c \in Conns : \A r \in 1..RecBound :
        /\ pushed[c][r] <= 1
        /\ (Live(c) /\ Returned(r) /\ c \in regAtInsert[r]) => pushed[c][r] = 1

\* C2: the first record a drain task writes is meta, every later one is a line
\* or a notice.
MetaFirst ==
    \A c \in Conns :
        written[c] # <<>> =>
            /\ written[c][1] = Meta
            /\ \A i \in 2..Len(written[c]) : written[c][i].type \in {"line", "notice"}

\* the last min(K, C) inserted records, as line records
LastRecords == 
    LET k == Min(Len(insertLog), capacity)
        t == LastN(insertLog, k)
    IN  [i \in 1..k |-> Line(t[i])]

\* session c was admitted with no Append running and none was called since
Fresh(c) == regQuiet[c] >= 0 /\ regQuiet[c] = nextRec - 1

\* C3: ring/replay result.  A session admitted after K appends, with no Append
\* running, whose consumer has read everything, has received meta and then
\* exactly the last min(K, C) records in append order.
ReplayYieldsLastRecords ==
    \A c \in Conns :
        (Fresh(c) /\ spc[c] = "recv" /\ ch[c] = <<>>) =>
            written[c] = <<Meta>> \o LastRecords

\* C5: a broadcast that evicted items from a session's channel places the
\* notice with that positive count on the channel.
EvictionIsNoticed ==
    [][\A p \in Producers :
          (apc[p] = "notice" /\ apc'[p] # "notice") =>
              /\ dropped[p] > 0
              /\ ch'[acur[p]] = Append(ch[acur[p]], Notice(dropped[p]))]_vars

\* producer p's broadcast finishes with a session in this step
FinishesSession(p) ==
    /\ apc'[p] = "range"
    /\ \/ apc[p] \in {"resend", "notice"}
       \/ apc[p] = "range" /\ todo'[p] # todo[p]

\* C6: no silent loss on fanout.  When a broadcast finishes with a session the
\* new record is on that session's channel, and every item broadcasts have
\* discarded from the channel has been reported by a notice enqueued for it.
NoSilentLoss ==
    [][\A p \in Producers :
          FinishesSession(p) =>
              /\ CountIn(ch'[acur'[p]], Line(arec[p])) >= 1
              /\ lost'[acur'[p]] = 0]_vars

\* C4: every Append call eventually returns.
AppendReturns ==
    \A p \in Producers : (apc[p] # "idle") ~> (apc[p] = "idle")

\* session c has been told of a loss
Noticed(c) == \E i \in 1..Len(written[c]) : written[c][i].type = "notice"

\* session c is registered and its transport takes what is written
Served(c) == c \in clients /\ connOpen[c] /\ peer[c] = "reading"

\* C7: session isolation.  A record inserted while session b was registered is
\* eventually written to b's transport or reported to b as dropped, unless b
\* itself stops being served; another session's stalled viewer does not matter.
IsolatedDelivery ==
    \A b \in Conns : \A r \in 1..RecBound :
        (r \in SeqToSet(insertLog) /\ b \in regAtInsert[r])
            ~> (CountIn(written[b], Line(r)) >= 1 \/ Noticed(b) \/ ~Served(b))

\* nothing was ever queued for or written to connection c
Untouched(c) ==
    /\ ch[c] = <<>>
    /\ written[c] = <<>>
    /\ \A r \in 0..RecBound : pushed[c][r] = 0

\* C8 as stated: a connection Accept returned while five sessions were
\* registered is rejected.
AcceptedAtCeilingRejected ==
    \A c \in Conns :
        (fullAtAccept[c] /\ spc[c] # "accepted") =>
            (spc[c] = "rejected" /\ c \notin clients /\ ~connOpen[c] /\ Untouched(c))

\* C8, amended: a connection for which handleNewClient finds five sessions
\* registered when it holds ringMu is closed, nothing is ever queued for it or
\* written to it, and it is never registered.
CheckedAtCeilingRejected ==
    \A c \in Conns :
        fullAtCheck[c] =>
            (spc[c] = "rejected" /\ c \notin clients /\ ~connOpen[c] /\ Untouched(c))

\* a rejected connection stays out after a slot has become free
RejectedWithFreeSlot ==
    \E c \in Conns :
        fullAtCheck[c] /\ spc[c] = "rejected" /\ Cardinality(clients) < MaxSessions

\* C9: after Stop has returned and until Start is called again, the registry
\* is empty and every session of the stopped listener has a closed transport.
StopLeavesNothing ==
    quiesced =>
        /\ clients = {}
        /\ \A c \in Conns :
              (via[c] = stopLn /\ spc[c] \notin {"none", "accepted", "rejected"})
                  => ~connOpen[c]

\* C10: endpoint fallback.  Start with A bound by another listener and B free
\* binds B, records B, and leaves the other listener's artifact at A.
FallbackToSecond ==
    [][(starts' = starts + 1 /\ candidates = <<"A", "B">>
           /\ fs["A"] = "other" /\ canListen(fs, dirMode, "B")) =>
          /\ running'
          /\ socketPath' = "B"
          /\ fs'["B"] = "broker"
          /\ fs'["A"] = "other"]_vars

\* candidate p binds: after os.Remove(p), net.Listen succeeds on it
Bindable(p) == canListen(osRemove(fs, dirMode, p), dirMode, p)

\* the positions of the candidates that bind
BindableAt == {i \in 1..Len(candidates) : Bindable(candidates[i])}

\* C11: Start binds the first candidate, in the given order, that can be bound
\* and starts the accept loop on it; it fails exactly when no candidate binds
\* (an empty list included), and then leaves running, listener and socketPath
\* as they were and starts no accept loop.
StartBindsFirstOrFails ==
    [][starts' = starts + 1 =>
          IF BindableAt # {}
          THEN LET i == CHOOSE j \in BindableAt : \A k \in BindableAt : j <= k
               IN  /\ running'
                   /\ listener' = starts + 1
                   /\ socketPath' = candidates[i]
                   /\ fs'[candidates[i]] = "broker"
                   /\ lpc'[starts + 1] = "accept"
          ELSE UNCHANGED <<running, listener, socketPath, lpc, listenerOpen>>]_vars

\* Start was given candidates, none of them bound, and it returned its error
StartFailed ==
    /\ starts = 1
    /\ stops = 0
    /\ candidates # <<>>
    /\ ~running
    /\ socketPath = ""
    /\ lpc[1] = "none"

\* producer p takes a step
ProducerMoves(p) == apc'[p] # apc[p] \/ todo'[p] # todo[p]

\* the records the History Buffer holds: the last min(K, C) inserted
Held(log) == SeqToSet(LastN(log, Min(Len(log), capacity)))

\* C12: Append works in every lifecycle state.  Its insert puts the record in
\* the History Buffer whether or not the broker runs; with no session
\* registered an Append changes nothing of the broker but the History Buffer
\* (and ringMu while it runs); and the replay of any session, also one admitted
\* by a later Start, sends every record the History Buffer holds.
AppendInEveryState ==
    [][/\ \A p \in Producers :
            /\ (apc[p] = "enqueue" /\ apc'[p] = "lock") =>
                   /\ ring'[head] = arec[p]
                   /\ arec[p] \in {ring'[i] : i \in 0..(capacity - 1)}
            /\ (ProducerMoves(p) /\ clients = {}) =>
                   UNCHANGED <<capacity, clients, running, listener, socketPath,
                               sessVars, loopVars, stopVars, fs>>
       /\ \A c \in Conns :
            (spc[c] = "replay" /\ spc'[c] = "recv") =>
                \A r \in Held(insertLog) : pushed'[c][r] >= 1]_vars

\* a session admitted by the second Start has been written a record that was
\* appended after the Stop, while the broker was not running
ReplayedAfterRestart ==
    \E c \in Conns : \E r \in 1..RecBound :
        /\ via[c] = 2
        /\ epochAtCall[r] = 2
        /\ startsAtStop = 1
        /\ CountIn(written[c], Line(r)) >= 1

\* the position of record r in the order of the inserts
InsertPos(r) == CHOOSE i \in 1..Len(insertLog) : insertLog[i] = r

\* C13: per-session ordering.  The line records written to a session's
\* transport appear in the order in which they were inserted into the History
\* Buffer: none is written before an older one.
WrittenInInsertOrder ==
    \A c \in Conns : \A i, j \in 1..Len(written[c]) :
        (i < j /\ written[c][i].type = "line" /\ written[c][j].type = "line")
            => InsertPos(written[c][i].n) <= InsertPos(written[c][j].n)

\* C14: the meta record leaves a session's channel only when the drain task
\* receives it to write it; no eviction, of replay or of a broadcast, discards it.
MetaOnlyDrained ==
    [][\A c \in Conns :
          CountIn(ch'[c], Meta) < CountIn(ch[c], Meta) =>
              (spc[c] = "recv" /\ spc'[c] = "flush" /\ cur'[c] = Meta)]_vars

\* everything of the broker that is not session c's own
OthersUnchanged(c) ==
    /\ UNCHANGED <<ring, head, capacity, running, listener, socketPath, lpc,
                   listenerOpen>>
    /\ \A d \in Conns \ {c} :
          /\ (d \in clients') = (d \in clients)
          /\ ch'[d] = ch[d]
          /\ connOpen'[d] = connOpen[d]

\* C15: write-failure isolation.  The steps a drain task takes after a write
\* or flush error remove exactly its own session from the registry (also when
\* Stop has removed it already) and close its own transport; the registration,
\* queue and transport of every other session, the History Buffer, and the
\* listener/running state are left as they were.
FailureIsLocal ==
    [][\A c \in Conns :
          /\ (spc[c] = "flush" /\ spc'[c] = "cleanup") =>
                 (OthersUnchanged(c) /\ UNCHANGED clients)
          /\ (spc[c] = "cleanup" /\ spc'[c] = "close") =>
                 (OthersUnchanged(c) /\ clients' = clients \ {c})
          /\ (spc[c] = "close" /\ spc'[c] = "done") =>
                 (OthersUnchanged(c) /\ UNCHANGED clients /\ c \notin clients'
                  /\ ~connOpen'[c])]_vars

\* a session whose viewer hung up has been removed and closed while another
\* session stays registered with its transport open
FailedAloneRemoved ==
    \E c, d \in Conns :
        /\ c # d
        /\ peer[c] = "gone"
        /\ spc[c] = "done"
        /\ stops = 0
        /\ d \in clients
        /\ connOpen[d]
        /\ written[d] # <<>>

\* the last Stop found a listener, has returned, and Start was not called
\* since it began
StoppedAfterStart ==
    tpc = "idle" /\ stops > 0 /\ stopLn # 0 /\ starts = startsAtStop

\* C16: after Stop has returned following a successful Start, nothing exists
\* at the path that Start recorded, the listener is closed, and b.listener and
\* b.socketPath are cleared.
StopClearsEndpoint ==
    StoppedAfterStart =>
        /\ stopPath # ""
        /\ fs[stopPath] = "none"
        /\ ~listenerOpen[stopLn]
        /\ listener = 0
        /\ socketPath = ""

\* Start fell back to the second candidate and Stop has returned since
StoppedOnSecond == StoppedAfterStart /\ stopPath = "B" /\ candidates = <<"A", "B">>

\* text t starts with the seven characters E R R O R : and a space
StartsWithErrorColonSpace(t) ==
    /\ Len(t) >= 7
    /\ t[1] = "E" /\ t[2] = "R" /\ t[3] = "R" /\ t[4] = "O" /\ t[5] = "R"
    /\ t[6] = ":" /\ t[7] = " "

\* C17: level derivation.  Every line record Append builds carries the level
\* "error" if its text starts with the literal prefix "ERROR: " (trailing space
\* included) and "info" otherwise, the empty text included.
LevelFollowsPrefix ==
    \A r \in 1..RecBound :
        ev[r] # NoLine =>
            ev[r].Level = IF StartsWithErrorColonSpace(ev[r].Text) THEN "error" ELSE "info"

\* a record whose text is exactly "ERROR: " was built with level error and inserted
BarePrefixIsError ==
    \E r \in 1..RecBound :
        /\ insertLog = <<r>>
        /\ ev[r].Text = ErrorPrefix
        /\ ev[r].Level = "error"

\* the slots head, head+1, ..., head+C-1 (mod C), empty ones skipped
RingReading ==
    LET slots == [i \in 1..capacity |-> ring[(head + i - 1) % capacity]]
        NotEmpty(x) == x # 0
    IN  SelectSeq(slots, NotEmpty)

\* some producer's enqueue inserts in this step
Inserts == \E p \in Producers : apc[p] = "enqueue" /\ apc'[p] = "lock"

\* C18: History Buffer invariant.  Always 0 <= head < C, and the slots read
\* from head on, empty ones skipped, are exactly the last min(total, C) records
\* in the order of their inserts; an insert writes only the slot at head and
\* advances head by one modulo C, and nothing else writes the buffer.
RingHoldsLastRecords ==
    /\ [](/\ 0 <= head /\ head < capacity
          /\ RingReading = LastN(insertLog, Min(Len(insertLog), capacity)))
    /\ [][IF Inserts
          THEN \E p \in Producers :
                  /\ apc[p] = "enqueue" /\ apc'[p] = "lock"
                  /\ ring' = [ring EXCEPT ![head] = arec[p]]
                  /\ head' = (head + 1) % capacity
          ELSE UNCHANGED <<ring, head>>]_vars

\* a buffer of one slot has overwritten its first record with the second
RingOverwritten ==
    /\ capacity = 1
    /\ Len(insertLog) = 2
    /\ ring[0] = insertLog[2]
    /\ head = 0

\* the goroutine of session c has returned, or was never started
Terminated(c) == spc[c] \in {"none", "accepted", "rejected", "done"}

\* Stop has returned and it closed the transport of session c
ClosedByStop(c) ==
    /\ tpc = "idle"
    /\ stops > 0
    /\ spc[c] \notin {"none", "accepted", "rejected"}
    /\ c \notin clients
    /\ ~connOpen[c]

\* C19: after Stop has returned, the drain task of every session whose
\* transport Stop closed eventually terminates, whether it was blocked on a
\* transport write or waiting on its empty channel.
DrainTasksEnd ==
    \A c \in 1..MaxConns : ClosedByStop(c) ~> Terminated(c)

\* the listener of accept loop l has been closed and the loop has not returned
LoopOnClosedListener(l) == lpc[l] \in {"accept", "handle"} /\ ~listenerOpen[l]

\* C20: the accept loop a Start started eventually returns once a Stop has
\* closed its listener, also when Start is called again before the loop sees
\* its accept error.
AcceptLoopExits ==
    \A l \in Listeners : LoopOnClosedListener(l) ~> (lpc[l] = "exited")

\* C21: while the broker is running an accept error never ends the accept
\* loop: a loop leaves its Accept call for the exit only when b.running is
\* false, and otherwise stays in the loop, where the next connection Accept
\* returns is handed to handleNewClient.
AcceptErrorsAbsorbed ==
    [][\A l \in Listeners :
          (lpc[l] = "accept" /\ lpc'[l] # "accept") =>
              \/ lpc'[l] = "exited" /\ ~running
              \/ lpc'[l] = "handle" /\ lconn'[l] # 0 /\ spc'[lconn'[l]] = "accepted"]_vars

\* a connection accepted after MaxAcceptErrors failed accepts, with no Stop,
\* has been registered by handleNewClient
RegisteredAfterErrors ==
    \E c \in Conns :
        /\ failedBefore[c] = MaxAcceptErrors
        /\ stops = 0
        /\ running
        /\ c \in clients

\* C22: every Stop call eventually returns and releases ringMu, also when a
\* registered session's viewer has stopped reading and its drain task is
\* blocked in a transport write.
StopReturns == (tpc # "idle") ~> (tpc = "idle" /\ mu # HeldByStop)

\* the notices in a channel
NoticeCount(q) == Cardinality({i \in 1..Len(q) : q[i].type = "notice"})

\* C23: a notice is enqueued for a session only by a broadcast that has
\* evicted items from that session's channel, once per broadcast and session,
\* and its number is exactly the number of items that broadcast evicted;
\* nothing evicted, no notice.
OneExactNotice ==
    [][\A c \in Conns :
          NoticeCount(ch'[c]) > NoticeCount(ch[c]) =>
              \E p \in Producers :
                  /\ apc[p] = "notice" /\ acur[p] = c
                  /\ evictions[p] > 0
                  /\ ch'[c] = Append(ch[c], Notice(evictions[p]))
                  /\ apc'[p] = "range"
                  /\ c \notin todo'[p]]_vars

\* a notice reporting one dropped line has been written to a session
NoticeDelivered ==
    \E c \in Conns : CountIn(written[c], Notice(1)) = 1

\* a dialler can reach listener l: the socket file at some path is its own
Reachable(l) == \E p \in Paths : fs[p] = "broker" /\ boundTo[p] = l

\* the accept loop of listener l is running on its open listener
Accepting(l) == listenerOpen[l] /\ lpc[l] \in {"accept", "handle"}

\* Start has succeeded twice and Stop was not called
StartedTwice == starts = 2 /\ stops = 0 /\ lpc[1] # "none" /\ lpc[2] # "none"

\* Start has succeeded twice and then one Stop was called and has returned
StoppedOnce ==
    /\ starts = 2 /\ lpc[1] # "none" /\ lpc[2] # "none"
    /\ stops = 1 /\ startsAtStop = 2 /\ tpc = "idle"

\* C24: double Start.  After a second Start both listeners are open with their
\* own accept loops and endpoints, the first still accepting; a following
\* single Stop closes only the second listener and removes only its path, and
\* the first listener stays open and reachable with its loop running.
DoubleStartKeepsBoth ==
    /\ StartedTwice =>
          (Accepting(1) /\ Accepting(2) /\ Reachable(1) /\ Reachable(2))
    /\ StoppedOnce =>
          (/\ stopLn = 2 /\ ~listenerOpen[2] /\ fs[stopPath] = "none"
           /\ Accepting(1) /\ Reachable(1))

\* the drain task of session c is writing or flushing cli.bw
DrainOnWriter(c) == spc[c] = "flush"

\* Stop is in cli.bw.Flush() of session c
StopOnWriter(c) == tpc = "flush" /\ stopCur = c

\* C25: exclusive writer.  Only a session's drain task operates on its
\* buffered writer: Stop never flushes it while the drain task is writing or
\* flushing it.
ExclusiveWriter ==
    \A c \in Conns : ~(DrainOnWriter(c) /\ StopOnWriter(c))

\* C26: admission invariant.  In every reachable state at most five sessions
\* are registered, whatever the interleaving of accepts over one or two accept
\* loops, removals by drain tasks and Stop.
AtMostFiveRegistered == Cardinality(clients) <= 5

\* five sessions are registered, admitted over both accept loops, and a
\* further connection has been turned away
FullOverTwoLoops ==
    /\ Cardinality(clients) = 5
    /\ \E c, d \in clients : via[c] = 1 /\ via[d] = 2
    /\ \E e \in Conns : spc[e] = "rejected"

\* the meta record of session c could not be sent: the write of meta, the
\* first record its drain task took, failed and the task went to its cleanup
MetaSendFailed(c) ==
    /\ spc[c] \in {"cleanup", "close", "done"}
    /\ pushed[c][0] >= 1
    /\ cur[c] = Meta
    /\ written[c] = <<>>

\* C27: handshake failure.  A session whose initial meta send failed is torn
\* down without replay: no history record was pushed on its channel, and once
\* its task has finished it is unregistered and its transport closed.
MetaFailureSkipsReplay ==
    \A c \in Conns :
        (Fresh(c) /\ MetaSendFailed(c)) =>
            /\ \A r \in 1..RecBound : pushed[c][r] = 0
            /\ (spc[c] = "done" => (c \notin clients /\ ~connOpen[c]))

\* the record the reader has just read
JustRead == consumed'[Len(consumed')]

\* C28: consumer side.  A record that is not valid JSON, or whose type is not
\* meta, line or notice, changes nothing and the reader goes on reading; only
\* a read error or the end of the stream ends the reader, which then shows
\* the disconnect line, exits with code 1 and never dials again.
ReaderSkipsBadRecords ==
    [][/\ (rpc = "read" /\ consumed' # consumed) =>
             IF JustRead.kind = "data"
             THEN /\ rpc' = "read" /\ exitCode' = exitCode /\ dials' = dials
                  /\ (~JustRead.valid \/ JustRead.type \notin {"meta", "line", "notice"})
                        => UNCHANGED <<uiLines, uiConfig>>
             ELSE /\ rpc' = "exited" /\ exitCode' = 1 /\ dials' = dials
                  /\ uiLines' = Append(uiLines, DisconnectNotice)
       /\ rpc = "exited" => (rpc' = "exited" /\ dials' = dials)]_vars

\* the reader skipped a record that is not JSON,
\* showed the line that followed, and exited at the end of the stream
SkippedThenShown ==
    /\ rpc = "exited"
    /\ Len(consumed) = 3
    /\ ~consumed[1].valid /\ consumed[1].kind = "data"
    /\ consumed[2] = DataRead(TRUE, "line", TRUE)
    /\ consumed[3] = EndOfStream
    /\ uiLines = <<"line", DisconnectNotice>>
    /\ exitCode = 1
    /\ dials = 1

==========================================================================
